---- MODULE Spec2Model ----
(***************************************************************************)
(* State-machine model of the batched camera sensor                        *)
(* (omni.isaac.orbit.sensors.camera.camera.Camera).                        *)
(*                                                                         *)
(* Slots are numbered 1..N here (the code numbers them 0..N-1).            *)
(* An attribute of the Python object that has not been assigned yet is     *)
(* absent from `attrs`; reading it raises AttributeError.                  *)
(***************************************************************************)
EXTENDS Integers, Sequences, FiniteSets, TLC

(* ------------------------------ bounds --------------------------------- *)

\* largest number of environments (parent prims) of a scene
MaxEnvs == 2
\* frame counters are followed up to this value
MaxFrame == 2
\* number of runs of _initialize_impl that are followed
MaxInits == 2
\* number of invalidation callbacks in a row that are followed
MaxInvalidations == 2
\* number of set_world_poses calls that are followed
MaxPoseCalls == 1
\* set_intrinsic_matrices calls that are followed
MaxLensCalls == 1

(* ------------------------- generic helpers ----------------------------- *)

Range(s) == {s[i] : i \in DOMAIN s}

RECURSIVE SetToSeq(_)
\* the elements of a finite set of integers, ascending
SetToSeq(S) ==
    IF S = {} THEN <<>>
    ELSE LET m == CHOOSE x \in S : \A y \in S : x <= y
         IN  <<m>> \o SetToSeq(S \ {m})

RECURSIVE Dedup(_)
\* a sequence without its repeated elements, first occurrences kept in order
\* (the key order of a dict built from the sequence)
Dedup(s) ==
    IF s = <<>> THEN <<>>
    ELSE LET r == Dedup(SubSeq(s, 1, Len(s) - 1))
         IN  IF s[Len(s)] \in Range(r) THEN r ELSE Append(r, s[Len(s)])

(* --------------------------- configuration ----------------------------- *)

UNSUPPORTED_TYPES == {"bounding_box_2d_tight", "bounding_box_2d_loose", "bounding_box_3d"}

\* characters of the class [a-zA-Z0-9/_]
WordChars == {"C", "a", "m", "1", "_", "/"}

\* re.match(r"^[a-zA-Z0-9/_]+$", leaf) is not None; `$` also matches just
\* before one trailing newline
LeafMatches(leaf) ==
    LET body == IF Len(leaf) > 0 /\ leaf[Len(leaf)] = "\n"
                THEN SubSeq(leaf, 1, Len(leaf) - 1) ELSE leaf
    IN  \/ Len(leaf) > 0 /\ \A i \in DOMAIN leaf : leaf[i] \in WordChars
        \/ Len(body) > 0 /\ \A i \in DOMAIN body : body[i] \in WordChars

\* leaf segments of cfg.prim_path (the text after the last "/")
Leaves ==
    { <<"C", "a", "m", "_", "1">>,     \* Cam_1
      <<"C", "a", "m", ".", "*">>,     \* Cam.*
      <<"C", "[", "1", "]">>,          \* C[1]
      <<>> }                           \* a path that ends in "/"

\* cfg.data_types
DataTypeLists ==
    { <<"rgb", "semantic_segmentation">>,
      <<"rgb", "rgb">>,
      <<"bounding_box_3d">>,
      <<"rgb", "bounding_box_2d_tight">>,
      <<"bounding_box_2d_loose", "rgb">> }

\* the configurations a caller may pass to Camera(cfg)
Cfgs ==
    [ leaf : Leaves, data_types : DataTypeLists, spawn : BOOLEAN,
      width : {4}, height : {2}, colorize : {FALSE}, semantic_types : {<<"class">>} ]

\* the stage before construction: the parent (environment) prims matched by
\* the path without its leaf, and the kind of the prim found under each
\* parent that has one
Scenes ==
    [ num_envs : 0 .. MaxEnvs,
      prims : UNION { [1 .. n -> {"Camera", "Xform"}] : n \in 0 .. MaxEnvs } ]

(* ------------------ orientations and camera intrinsics ------------------ *)

\* An orientation is the rotation matrix of its quaternion, rows first.
Identity == << <<1, 0, 0>>, <<0, 1, 0>>, <<0, 0, 1>> >>

\* torch.zeros: the value of a freshly created pose or intrinsics buffer row
ZeroMatrix == << <<0, 0, 0>>, <<0, 0, 0>>, <<0, 0, 0>> >>

MatMul(A, B) ==
    [i \in 1 .. 3 |-> [j \in 1 .. 3 |->
        A[i][1] * B[1][j] + A[i][2] * B[2][j] + A[i][3] * B[3][j]]]

Transpose(A) == [i \in 1 .. 3 |-> [j \in 1 .. 3 |-> A[j][i]]]

Conventions == {"opengl", "ros", "world"}

\* optical (forward -Z, up +Y) to robotics (forward +Z, up -Y): the Y and Z
\* columns change sign
GlToRos == << <<1, 0, 0>>, <<0, -1, 0>>, <<0, 0, -1>> >>

\* optical to world (forward +X, up +Z): X is the old -Z, Y the old -X, Z the
\* old +Y
GlToWorld == << <<0, -1, 0>>, <<0, 0, 1>>, <<-1, 0, 0>> >>

\* a conversion that applies the world rotation where its inverse is due
ConvertOrientation_NoInverse(q, origin, target) ==
    IF origin = target THEN q
    ELSE LET gl == CASE origin = "ros" -> MatMul(q, Transpose(GlToRos))
                     [] origin = "world" -> MatMul(q, GlToWorld)
                     [] OTHER -> q
         IN  CASE target = "ros" -> MatMul(gl, GlToRos)
               [] target = "world" -> MatMul(gl, GlToWorld)
               [] OTHER -> gl

\* convert_orientation_convention(orientation, origin, target)
ConvertOrientation(q, origin, target) ==
    IF origin = target THEN q
    ELSE LET gl == CASE origin = "ros" -> MatMul(q, Transpose(GlToRos))
                     [] origin = "world" -> MatMul(q, Transpose(GlToWorld))
                     [] OTHER -> q
         IN  CASE target = "ros" -> MatMul(gl, GlToRos)
               [] target = "world" -> MatMul(gl, GlToWorld)
               [] OTHER -> gl

RECURSIVE Gcd(_, _)
Gcd(a, b) == IF b = 0 THEN a ELSE Gcd(b, a % b)

\* the rational n/d, d > 0, in lowest terms
Frac(n, d) ==
    LET g == Gcd(IF n < 0 THEN -n ELSE n, d)
    IN  IF n = 0 THEN <<0, 1>> ELSE <<n \div g, d \div g>>

\* x / y for rationals x and y, y not 0, in lowest terms
FracDiv(x, y) ==
    IF y[1] < 0 THEN Frac(0 - (x[1] * y[2]), x[2] * (0 - y[1]))
    ELSE Frac(x[1] * y[2], x[2] * y[1])

\* x - y for rationals
FracSub(x, y) == Frac(x[1] * y[2] - y[1] * x[2], x[2] * y[2])

\* x * y for rationals
FracMul(x, y) == Frac(x[1] * y[1], x[2] * y[2])

\* an intrinsic matrix with the principal point at (width, height)
ComputeIntrinsics_Corner(focal_length, horiz_aperture, height, width) ==
    LET focal_px == FracDiv(FracMul(Frac(width, 1), focal_length), horiz_aperture)
    IN  [ m00 |-> focal_px, m02 |-> Frac(width, 1),
          m11 |-> focal_px, m12 |-> Frac(height, 1), m22 |-> <<1, 1>> ]

\* the entries _update_intrinsic_matrices assigns, for a focal length and a
\* horizontal aperture given as rationals; width*0.5/tan(atan(a/(2f))) is
\* width*f/a
ComputeIntrinsics(focal_length, horiz_aperture, height, width) ==
    LET focal_px == FracDiv(FracMul(Frac(width, 1), focal_length), horiz_aperture)
    IN  [ m00 |-> focal_px, m02 |-> Frac(width, 2),
          m11 |-> focal_px, m12 |-> Frac(height, 2), m22 |-> <<1, 1>> ]

\* a row of torch.zeros((N, 3, 3)): the nine entries of one matrix
ZeroIntrinsics ==
    [ m00 |-> <<0, 1>>, m01 |-> <<0, 1>>, m02 |-> <<0, 1>>,
      m10 |-> <<0, 1>>, m11 |-> <<0, 1>>, m12 |-> <<0, 1>>,
      m20 |-> <<0, 1>>, m21 |-> <<0, 1>>, m22 |-> <<0, 1>> ]

(* ------------------------------- state --------------------------------- *)

VARIABLES
    pc,             \* "new", "alive", "ctor_failed", "disposed"
    arg,            \* the cfg argument of the constructor call
    scene,          \* the stage: [num_envs, prims]
    world,          \* per prim of the stage: pose (optical convention), lens
    tick,           \* what the renderer currently shows
    attached,       \* the annotators attached to a render product (backend)
    backend_calls,  \* which kinds of backend call have been made so far
    attrs,          \* the attributes the object has
    self_cfg,       \* self.cfg
    is_initialized, \* self._is_initialized
    num_envs,       \* self._num_envs
    is_outdated,    \* self._is_outdated
    view,           \* self._view: "none" or "live", and its count
    frame,          \* self._frame
    sensor_prims,   \* self._sensor_prims
    paths,          \* self._render_product_paths
    registry,       \* self._rep_registry
    data,           \* self._data: pos_w, quat_w_world, intrinsic_matrices
    output,         \* self._data.output
    info,           \* self._data.info
    gen,            \* runs of _initialize_impl so far
    last,           \* the last call: operation, slots, the error it raised
    calls,          \* the get_data and detach calls of the last call
    captured,       \* history: the (type, index) captures stored since _create_buffers
    refreshed,      \* history: a refresh has returned since _create_buffers
    inval_run,      \* history: invalidation callbacks received in a row
    pose_arg,       \* the arguments of the last set_world_poses call
    pose_calls,     \* history: set_world_poses calls so far
    lens_arg,       \* the last set_intrinsic_matrices call: arguments and error
    lens_calls,     \* history: set_intrinsic_matrices calls so far
    conv,           \* a convention conversion and its way back
    lens            \* an intrinsic matrix computed from a lens and set again

vars ==
    << pc, arg, scene, world, tick, attached, backend_calls, attrs, self_cfg,
       is_initialized, num_envs, is_outdated, view, frame, sensor_prims,
       paths, registry, data, output, info, gen, last, calls, captured, refreshed,
       inval_run, pose_arg, pose_calls, lens_arg, lens_calls, conv, lens >>

\* the variables of the two pure computations
pure == << conv, lens >>

\* the variables of the Camera object and of its backend
camera ==
    << pc, arg, scene, world, tick, attached, backend_calls, attrs, self_cfg,
       is_initialized, num_envs, is_outdated, view, frame, sensor_prims,
       paths, registry, data, output, info, gen, last, calls, captured, refreshed,
       inval_run, pose_arg, pose_calls, lens_arg, lens_calls >>

\* the argument slot of the constructor once the call has returned
NoArg ==
    [ leaf |-> <<>>, data_types |-> <<>>, spawn |-> FALSE, width |-> 0, height |-> 0,
      colorize |-> FALSE, semantic_types |-> <<>> ]

NoCfg ==
    [ leaf |-> <<>>, data_types |-> <<>>, width |-> 0, height |-> 0,
      colorize |-> FALSE, semantic_types |-> <<>> ]

NoData == [ pos_w |-> <<>>, quat_w_world |-> <<>>, intrinsic_matrices |-> <<>> ]

\* set_world_poses has not been called last
NoPoseArg == [ positions |-> << >>, orientations |-> << >>, convention |-> "none" ]

\* set_intrinsic_matrices has not been called
NoLensArg ==
    [ matrices |-> << >>, focal_length |-> 0, env_ids |-> << >>, all |-> FALSE,
      err |-> "none" ]

\* no conversion under way
NoConv ==
    [ p |-> 0, o |-> Identity, origin |-> "none", target |-> "none",
      p_there |-> 0, there |-> Identity, p_back |-> 0, back |-> Identity, stage |-> 0 ]

\* the pose and lens the prim under parent `e` has when the stage is
\* authored: every prim has its own position, orientation and focal length
InitialPrim(e) ==
    [ pos |-> 10 * e, rot |-> IF e = 1 THEN Identity ELSE GlToRos,
      focal_length |-> <<e + 1, 1>>, horiz_aperture |-> <<4, 1>>,
      vertical_aperture |-> <<2, 1>>,
      horizontal_aperture_offset |-> <<0, 1>>, vertical_aperture_offset |-> <<0, 1>> ]

\* no intrinsic matrix under way
NoLens ==
    [ f |-> 1, a |-> 1, h |-> 1, w |-> 1, matrix |-> ZeroIntrinsics,
      params |-> [ focal_length |-> <<0, 1>>, horizontal_aperture |-> <<0, 1>>,
                   vertical_aperture |-> <<0, 1>>,
                   horizontal_aperture_offset |-> <<0, 1>>,
                   vertical_aperture_offset |-> <<0, 1>> ],
      stage |-> 0 ]

\* no Camera object exists yet
Blank ==
    /\ pc = "new"
    /\ tick = 0
    /\ attached = {}
    /\ backend_calls = {}
    /\ attrs = {}
    /\ self_cfg = NoCfg
    /\ is_initialized = FALSE
    /\ num_envs = 0
    /\ is_outdated = <<>>
    /\ view = [state |-> "none", count |-> 0]
    /\ frame = <<>>
    /\ sensor_prims = <<>>
    /\ paths = <<>>
    /\ registry = <<>>
    /\ data = NoData
    /\ output = <<>>
    /\ info = <<>>
    /\ gen = 0
    /\ last = [op |-> "none", ids |-> {}, err |-> "none"]
    /\ calls = <<>>
    /\ captured = {}
    /\ refreshed = FALSE
    /\ inval_run = 0
    /\ pose_arg = NoPoseArg
    /\ pose_calls = 0
    /\ lens_arg = NoLensArg
    /\ lens_calls = 0

Init ==
    /\ arg \in Cfgs
    /\ scene \in Scenes
    /\ world = [e \in DOMAIN scene.prims |-> InitialPrim(e)]
    /\ Blank
    /\ conv = NoConv
    /\ lens = NoLens

Result(op, ids, err) == [op |-> op, ids |-> ids, err |-> err]

(* ----------------------------- construction ---------------------------- *)

\* sensor_path_is_regex of Camera.__init__
SensorPathIsRegex(leaf) == ~LeafMatches(leaf)

\* what `raise RuntimeError(f"... {self.cfg.prim_path} ...")` raises: the
\* message reads self.cfg, which exists only once the base class has set it
RaiseInvalidPrimPath(has) == IF "cfg" \in has THEN "RuntimeError" ELSE "AttributeError"

\* a check that forgets one of the three unsupported types
UnsupportedRequested_2dOnly(cfg) ==
    Range(cfg.data_types) \cap {"bounding_box_2d_tight", "bounding_box_2d_loose"}

\* a check that lets every type through
UnsupportedRequested_None(cfg) == {}

\* _check_supported_data_types: the unsupported types the cfg asks for
UnsupportedRequested(cfg) == Range(cfg.data_types) \cap UNSUPPORTED_TYPES

\* cfg.spawn.func(...): one camera prim under every parent prim
Spawned(sc) == [sc EXCEPT !.prims = [e \in 1 .. sc.num_envs |-> "Camera"]]

\* Camera.__init__(cfg)
Construct ==
    /\ UNCHANGED << pure, pose_calls, lens_calls >>
    /\ inval_run' = 0
    /\ pose_arg' = NoPoseArg
    /\ lens_arg' = lens_arg
    /\ pc = "new"
    /\ LET regex == SensorPathIsRegex(arg.leaf)
           unsupported == UnsupportedRequested(arg) # {}
           sc == IF arg.spawn THEN Spawned(scene) ELSE scene
           err == CASE regex -> RaiseInvalidPrimPath(attrs)
                    [] ~regex /\ unsupported -> "ValueError"
                    [] ~regex /\ ~unsupported /\ Len(sc.prims) = 0 -> "RuntimeError"
                    [] OTHER -> "none"
           based == ~regex /\ ~unsupported
       IN  /\ last' = Result("construct", {}, err)
           /\ pc' = IF err = "none" THEN "alive" ELSE "ctor_failed"
           /\ arg' = IF err = "none" THEN NoArg ELSE arg
           /\ self_cfg' = IF based
                          THEN [ leaf |-> arg.leaf, data_types |-> arg.data_types,
                                 width |-> arg.width, height |-> arg.height,
                                 colorize |-> arg.colorize,
                                 semantic_types |-> arg.semantic_types ]
                          ELSE self_cfg
           /\ scene' = IF based THEN sc ELSE scene
           /\ world' = IF based THEN [e \in DOMAIN sc.prims |-> InitialPrim(e)] ELSE world
           /\ backend_calls' =
                  IF based
                  THEN backend_calls \cup {"find_matching_prims"}
                           \cup (IF arg.spawn THEN {"spawn"} ELSE {})
                  ELSE backend_calls
           /\ attrs' = attrs \cup (IF based THEN {"cfg"} ELSE {})
                             \cup (IF err = "none" THEN {"sensor_prims", "data"} ELSE {})
    /\ UNCHANGED << tick, attached, is_initialized, num_envs, is_outdated, view,
                    frame, sensor_prims, paths, registry, data, output, info, gen,
                    calls, captured, refreshed >>

(* ---------------------------- initialization --------------------------- *)

Ones(n) == [i \in 1 .. n |-> TRUE]

Zeros(n) == [i \in 1 .. n |-> 0]

\* the render product created for the prim of slot `slot` by run `g`
RenderProduct(g, slot) == [gen |-> g, slot |-> slot]

\* init_params = None
NoParams == [ is_none |-> TRUE, items |-> {} ]

\* init_params as a dict: its (key, value) items
Params(items) == [ is_none |-> FALSE, items |-> items ]

\* parameters that leave the colorize flag out for every type
InitParams_NoColorize(name) ==
    CASE name \in {"bounding_box_2d_tight", "bounding_box_2d_loose", "bounding_box_3d",
                   "semantic_segmentation", "instance_segmentation"} ->
            Params({ <<"semanticTypes", self_cfg.semantic_types>> })
      [] OTHER -> NoParams

\* the init_params _initialize_impl builds for the data type `name`
InitParams(name) ==
    CASE name \in {"bounding_box_2d_tight", "bounding_box_2d_loose", "bounding_box_3d"} ->
            Params({ <<"semanticTypes", self_cfg.semantic_types>> })
      [] name \in {"semantic_segmentation", "instance_segmentation"} ->
            Params({ <<"semanticTypes", self_cfg.semantic_types>>,
                     <<"colorize", self_cfg.colorize>> })
      [] name \in {"instance_id_segmentation"} ->
            Params({ <<"colorize", self_cfg.colorize>> })
      [] OTHER -> NoParams

\* the annotator created by run `g` for slot `slot` and the k-th entry of
\* cfg.data_types, with the init_params it was created with
Annotator(g, slot, k, name) ==
    [gen |-> g, slot |-> slot, k |-> k, name |-> name, params |-> InitParams(name)]

PathOf(ann) == RenderProduct(ann.gen, ann.slot)

\* the (slot, k) pairs of the two nested loops of _initialize_impl, in the
\* order the loops visit them
LoopPairs(count, types) ==
    [i \in 1 .. count * Len(types) |->
        << ((i - 1) \div Len(types)) + 1, ((i - 1) % Len(types)) + 1 >>]

\* a loop without the IsA(UsdGeom.Camera) check
FirstNonCamera_Unchecked(prims) == Len(prims) + 1

\* the first slot whose prim is not a Camera, count + 1 when all are
FirstNonCamera(prims) ==
    IF \A e \in DOMAIN prims : prims[e] = "Camera" THEN Len(prims) + 1
    ELSE CHOOSE e \in DOMAIN prims :
            /\ prims[e] # "Camera"
            /\ \A d \in 1 .. e - 1 : prims[d] = "Camera"

\* self._rep_registry after the loops have created the first `done`
\* annotators: every annotator is appended to the list of its type name
BuildRegistry(g, types, pairs, done) ==
    [name \in Range(types) |->
        LET mine(p) == types[p[2]] = name
            sel == SelectSeq(SubSeq(pairs, 1, done), mine)
        IN  [j \in DOMAIN sel |-> Annotator(g, sel[j][1], sel[j][2], name)]]

\* _create_buffers: self._data.info
EmptyInfo(count, types) == [i \in 1 .. count |-> [name \in Range(types) |-> <<>>]]

\* _initialize_callback -> Camera._initialize_impl. `bf` is the number of
\* the annotator whose creation or attach the backend fails, 0 for none.
Initialize ==
    /\ UNCHANGED << pure, pose_calls, lens_calls >>
    /\ inval_run' = 0
    /\ pose_arg' = NoPoseArg
    /\ lens_arg' = lens_arg
    /\ pc = "alive"
    /\ ~is_initialized
    /\ gen < MaxInits
    /\ LET g == gen + 1
           count == Len(scene.prims)
           types == self_cfg.data_types
           K == Len(types)
           pairs == LoopPairs(count, types)
           bad == FirstNonCamera(scene.prims)
           sized == count = scene.num_envs
       IN  \E bf \in 0 .. (IF sized THEN (bad - 1) * K ELSE 0) :
           LET done == IF bf # 0 THEN bf - 1 ELSE (bad - 1) * K
               nprims == IF bf # 0 THEN pairs[bf][1] ELSE bad - 1
               err == CASE ~sized -> "RuntimeError"
                        [] sized /\ bf # 0 -> "BackendError"
                        [] sized /\ bf = 0 /\ bad <= count -> "RuntimeError"
                        [] OTHER -> "none"
               reg == BuildRegistry(g, types, pairs, done)
           IN  /\ gen' = g
               /\ last' = Result("initialize", {}, err)
               /\ num_envs' = scene.num_envs
               /\ is_outdated' = Ones(scene.num_envs)
               /\ view' = [state |-> "live", count |-> count]
               /\ backend_calls' = backend_calls \cup {"find_matching_prims", "view"}
                      \cup (IF nprims > 0 THEN {"render_product"} ELSE {})
                      \cup (IF done > 0 THEN {"attach"} ELSE {})
               /\ attrs' = attrs \cup {"base", "view"}
                      \cup (IF sized THEN {"indices", "registry"} ELSE {})
                      \cup (IF err = "none" THEN {"buffers"} ELSE {})
               /\ frame' = IF sized THEN Zeros(count) ELSE frame
               /\ paths' = IF sized THEN [e \in 1 .. nprims |-> RenderProduct(g, e)]
                           ELSE paths
               /\ registry' = IF sized THEN reg ELSE registry
               /\ sensor_prims' =
                      IF sized
                      THEN sensor_prims \o [e \in 1 .. nprims |-> [gen |-> g, prim |-> e]]
                      ELSE sensor_prims
               /\ attached' =
                      IF sized
                      THEN attached \cup UNION { Range(reg[name]) : name \in DOMAIN reg }
                      ELSE attached
               /\ IF err = "none"
                  THEN /\ data' = [ pos_w |-> Zeros(count),
                                    quat_w_world |-> [i \in 1 .. count |-> ZeroMatrix],
                                    intrinsic_matrices |-> [i \in 1 .. count |-> ZeroIntrinsics] ]
                       /\ output' = << >>
                       /\ info' = EmptyInfo(count, types)
                       /\ captured' = {}
                       /\ refreshed' = FALSE
                  ELSE UNCHANGED << data, output, info, captured, refreshed >>
               /\ is_initialized' = (err = "none")
    /\ calls' = << >>
    /\ UNCHANGED << pc, arg, scene, world, tick, self_cfg >>

\* a callback that keeps count in the dropped view
DropView_Counting(v) == [state |-> "none", count |-> v.count + 1]

\* self._view = None
DropView(v) == [state |-> "none", count |-> 0]

\* _invalidate_initialize_callback(event)
Invalidate ==
    /\ UNCHANGED << pure, pose_calls, lens_calls >>
    /\ pose_arg' = NoPoseArg
    /\ lens_arg' = lens_arg
    /\ inval_run < MaxInvalidations
    /\ inval_run' = inval_run + 1
    /\ pc = "alive"
    /\ is_initialized' = FALSE
    /\ view' = DropView(view)
    /\ attrs' = attrs \cup {"view"}
    /\ last' = Result("invalidate", {}, "none")
    /\ calls' = << >>
    /\ UNCHANGED << pc, arg, scene, world, tick, attached, backend_calls, self_cfg,
                    num_envs, is_outdated, frame, sensor_prims, paths, registry,
                    data, output, info, gen, captured, refreshed >>

(* ------------------------------- teardown ------------------------------ *)

Min(a, b) == IF a < b THEN a ELSE b

\* the detach calls of Camera.__del__: per type name, zip(annotators, paths)
DetachCalls(reg, pths, keys) ==
    LET PerName(name) ==
            [j \in 1 .. Min(Len(reg[name]), Len(pths)) |->
                [fn |-> "detach", ann |-> reg[name][j], index |-> j, path |-> pths[j]]]
        F[i \in 0 .. Len(keys)] ==
            IF i = 0 THEN << >> ELSE F[i - 1] \o PerName(keys[i])
    IN  F[Len(keys)]

\* annotator.detach([path]) releases the annotator from that render product
Released(cs) == { cs[i].ann : i \in { j \in DOMAIN cs : cs[j].path = PathOf(cs[j].ann) } }

\* Camera.__del__; the object and all its attributes are gone afterwards
Dispose ==
    /\ UNCHANGED << pure, pose_calls, lens_calls >>
    /\ inval_run' = 0
    /\ pose_arg' = NoPoseArg
    /\ lens_arg' = lens_arg
    /\ pc = "alive"
    /\ pc' = "disposed"
    /\ IF "registry" \in attrs
       THEN \E cs \in {DetachCalls(registry, paths, Dedup(self_cfg.data_types))} :
                /\ calls' = cs
                /\ attached' = attached \ Released(cs)
                /\ last' = Result("dispose", {}, "none")
       ELSE /\ calls' = << >>
            /\ attached' = attached
            /\ last' = Result("dispose", {}, "AttributeError")
    /\ attrs' = {}
    /\ self_cfg' = NoCfg
    /\ is_initialized' = FALSE
    /\ num_envs' = 0
    /\ is_outdated' = << >>
    /\ view' = [state |-> "none", count |-> 0]
    /\ frame' = << >>
    /\ sensor_prims' = << >>
    /\ paths' = << >>
    /\ registry' = << >>
    /\ data' = NoData
    /\ output' = << >>
    /\ info' = << >>
    /\ captured' = {}
    /\ refreshed' = FALSE
    /\ UNCHANGED << arg, scene, world, tick, backend_calls, gen >>

(* ------------------------ pose, intrinsics, capture --------------------- *)

\* the slot sets a caller may pass as env_ids
SlotSets ==
    IF "indices" \in attrs /\ Len(frame) > 0
    THEN SUBSET (1 .. Len(frame)) \ {{}}
    ELSE {{1}}

\* self._ALL_INDICES
AllIndices == 1 .. Len(frame)

\* _update_intrinsic_matrices(env_ids) applied to the data `d`: [err, data]
UpdateIntrinsicMatrices(ids, d) ==
    LET missing == { i \in ids : i > Len(sensor_prims) }
        stop == IF missing = {} THEN Len(sensor_prims) + 1
                ELSE CHOOSE i \in missing : \A j \in missing : i <= j
        first == CHOOSE i \in ids : \A j \in ids : i <= j
        Lens(i) == world[sensor_prims[i].prim]
    IN  IF "buffers" \notin attrs
        THEN [ err |-> IF first \in missing THEN "IndexError" ELSE "TypeError", data |-> d ]
        ELSE [ err |-> IF missing = {} THEN "none" ELSE "IndexError",
               data |-> [d EXCEPT !.intrinsic_matrices =
                   [i \in DOMAIN d.intrinsic_matrices |->
                       IF i \in ids /\ i < stop
                       THEN ComputeIntrinsics(Lens(i).focal_length, Lens(i).horiz_aperture,
                                              self_cfg.height, self_cfg.width)
                                @@ d.intrinsic_matrices[i]
                       ELSE d.intrinsic_matrices[i]]] ]

\* _update_poses(env_ids) applied to the data `d`: [err, data]
UpdatePoses(ids, d) ==
    CASE Len(sensor_prims) = 0 -> [err |-> "RuntimeError", data |-> d]
      [] Len(sensor_prims) # 0 /\ ("view" \notin attrs \/ view.state = "none") ->
            [err |-> "AttributeError", data |-> d]
      [] Len(sensor_prims) # 0 /\ "view" \in attrs /\ view.state = "live"
         /\ "buffers" \notin attrs ->
            [err |-> "TypeError", data |-> d]
      [] OTHER ->
            [ err |-> "none",
              data |-> [d EXCEPT
                  !.pos_w = [i \in DOMAIN d.pos_w |->
                      IF i \in ids THEN world[i].pos ELSE d.pos_w[i]],
                  !.quat_w_world = [i \in DOMAIN d.quat_w_world |->
                      IF i \in ids
                      THEN ConvertOrientation(world[i].rot, "opengl", "world")
                      ELSE d.quat_w_world[i]]] ]

\* types whose annotator returns a dict with "data" and "info"
StructuredTypes == {"semantic_segmentation", "instance_segmentation", "instance_id_segmentation"}

\* annotator.get_data(): what the renderer shows through the render product
\* the annotator is attached to; a dict carries the image under "data" and
\* the label table of that image under "info"
GetData(ann) ==
    IF ann.name \in StructuredTypes
    THEN [ is_dict |-> TRUE, data |-> <<ann.slot, tick>>,
           info |-> <<"idToLabels", ann.slot, tick>> ]
    ELSE [ is_dict |-> FALSE, data |-> <<ann.slot, tick>> ]

\* a normalisation that takes the two fields of a dict the wrong way round
ProcessAnnotatorOutput_Swapped(payload) ==
    IF payload.is_dict THEN << payload.info, payload.data >> ELSE << payload.data, << >> >>

\* a normalisation that drops the info of a dict payload
ProcessAnnotatorOutput_NoInfo(payload) == << payload.data, << >> >>

\* _process_annotator_output(output): (data, info), info None as << >>
ProcessAnnotatorOutput(payload) ==
    IF payload.is_dict THEN << payload.data, payload.info >> ELSE << payload.data, << >> >>

\* the (name, index) pairs of the loops over the registry and the slots
CaptureLoop(keys, ids) ==
    LET idx == SetToSeq(ids)
    IN  [i \in 1 .. Len(keys) * Len(idx) |->
            << keys[((i - 1) \div Len(idx)) + 1], idx[((i - 1) % Len(idx)) + 1] >>]

WithKey(f, key, val) == [k \in DOMAIN f \cup {key} |-> IF k = key THEN val ELSE f[k]]

GetDataCall(ann, index) ==
    [fn |-> "get_data", ann |-> ann, index |-> index, path |-> PathOf(ann)]

\* a store of the stacked data after the first index already
LoopDone_First(index) == index = 1

\* whether `index` ends the loop over self._ALL_INDICES, after which the
\* stacked data of the type is stored
LoopDone(index) == index = Len(frame)

\* a failure path that zeroes the buffers
RaiseCapture_Clearing(st, called) ==
    [st EXCEPT !.calls = called, !.err = "CaptureError",
               !.output = [T \in DOMAIN st.output |->
                              [j \in DOMAIN st.output[T] |-> <<0, 0>>]]]

\* get_data raises: the exception leaves the loops with the buffers as they are
RaiseCapture(st, called) == [st EXCEPT !.calls = called, !.err = "CaptureError"]

RECURSIVE CreateAnnotatorData(_, _, _)
\* _create_annotator_data: `todo` is what is left of the loops, `st` the
\* buffers so far ([output, info, stack, calls, err]), `failAt` the number
\* of the get_data call that raises (0: none does)
CreateAnnotatorData(todo, st, failAt) ==
    IF todo = << >> \/ st.err # "none" THEN st
    ELSE LET name == Head(todo)[1]
             index == Head(todo)[2]
         IN  IF index > Len(registry[name])
             THEN [st EXCEPT !.err = "IndexError"]
             ELSE LET ann == registry[name][index]
                      called == Append(st.calls, GetDataCall(ann, index))
                      out == ProcessAnnotatorOutput(GetData(ann))
                      stacked == Append(st.stack, out[1])
                      last_index == LoopDone(index)
                  IN  IF Len(called) = failAt
                      THEN RaiseCapture(st, called)
                      ELSE CreateAnnotatorData(Tail(todo),
                              [ st EXCEPT
                                  !.calls = called,
                                  !.info = [st.info EXCEPT ![index][name] = out[2]],
                                  !.stack = IF last_index THEN << >> ELSE stacked,
                                  !.output = IF last_index
                                             THEN WithKey(st.output, name, stacked)
                                             ELSE st.output ],
                              failAt)

RECURSIVE OverwriteAnnotatorData(_, _, _)
\* the else branch of _update_buffers_impl, in the same form
OverwriteAnnotatorData(todo, st, failAt) ==
    IF todo = << >> \/ st.err # "none" THEN st
    ELSE LET name == Head(todo)[1]
             index == Head(todo)[2]
         IN  IF index > Len(registry[name])
             THEN [st EXCEPT !.err = "IndexError"]
             ELSE LET ann == registry[name][index]
                      called == Append(st.calls, GetDataCall(ann, index))
                      out == ProcessAnnotatorOutput(GetData(ann))
                  IN  CASE Len(called) = failAt -> RaiseCapture(st, called)
                        [] Len(called) # failAt /\ name \notin DOMAIN st.output ->
                              [st EXCEPT !.calls = called, !.err = "KeyError"]
                        [] OTHER ->
                              OverwriteAnnotatorData(Tail(todo),
                                  [ st EXCEPT
                                      !.calls = called,
                                      !.output = [st.output EXCEPT ![name][index] = out[1]],
                                      !.info = [st.info EXCEPT ![index][name] = out[2]] ],
                                  failAt)

\* the number of get_data calls a refresh of `ids` makes when none raises
PlannedCalls(ids) ==
    IF "buffers" \notin attrs \/ "registry" \notin attrs THEN 0
    ELSE Len(Dedup(self_cfg.data_types))
            * (IF DOMAIN output = {} THEN Len(frame) ELSE Cardinality(ids))

\* the annotator part of _update_buffers_impl: [output, info, stack, calls, err]
ReadAnnotators(ids, failAt) ==
    LET st0 == [output |-> output, info |-> info, stack |-> << >>, calls |-> << >>,
                err |-> "none"]
        keys == Dedup(self_cfg.data_types)
    IN  IF "buffers" \notin attrs \/ "registry" \notin attrs
        THEN [st0 EXCEPT !.err = "AttributeError"]
        ELSE IF DOMAIN output = {}
             THEN CreateAnnotatorData(CaptureLoop(keys, AllIndices), st0, failAt)
             ELSE OverwriteAnnotatorData(CaptureLoop(keys, ids), st0, failAt)

\* an increment of every slot's counter, whatever env_ids is
IncrementFrames_All(ids) == [i \in DOMAIN frame |-> frame[i] + 1]

\* self._frame[env_ids] += 1
IncrementFrames(ids) ==
    [i \in DOMAIN frame |-> IF i \in ids THEN frame[i] + 1 ELSE frame[i]]

\* _update_buffers_impl(env_ids): [err, frame, data, output, info, calls]
UpdateBuffersImpl(ids, failAt) ==
    IF "indices" \notin attrs
    THEN [ err |-> "AttributeError", frame |-> frame, data |-> data, output |-> output,
           info |-> info, calls |-> << >> ]
    ELSE LET fr == IncrementFrames(ids)
             intr == UpdateIntrinsicMatrices(ids, data)
             pose == UpdatePoses(ids, intr.data)
             ann == ReadAnnotators(ids, failAt)
         IN  CASE intr.err # "none" ->
                    [ err |-> intr.err, frame |-> fr, data |-> intr.data,
                      output |-> output, info |-> info, calls |-> << >> ]
               [] intr.err = "none" /\ pose.err # "none" ->
                    [ err |-> pose.err, frame |-> fr, data |-> pose.data,
                      output |-> output, info |-> info, calls |-> << >> ]
               [] OTHER ->
                    [ frame |-> fr, data |-> pose.data ] @@ ann

\* the (type, index) pairs whose get_data result the refresh `r` has kept
Stored(r) ==
    LET kept == IF r.err \in {"CaptureError", "KeyError"}
                THEN SubSeq(r.calls, 1, Len(r.calls) - 1) ELSE r.calls
    IN  { << kept[n].ann.name, kept[n].index >> : n \in DOMAIN kept }

\* the slots _update_outdated_buffers refreshes
OutdatedIds == { i \in DOMAIN is_outdated : is_outdated[i] }

\* _update_outdated_buffers with the refresh `r` of the outdated slots:
\* they are marked up to date when the refresh returns
MarkUpdated(r) ==
    IF r.err = "none" THEN [i \in DOMAIN is_outdated |-> FALSE] ELSE is_outdated

\* a read that refreshes every slot, outdated or not
SlotsToRefresh_All == DOMAIN is_outdated

\* the slots the `data` property refreshes
SlotsToRefresh == OutdatedIds

\* the `data` property
ReadData ==
    /\ UNCHANGED << pure, pose_calls, lens_calls >>
    /\ inval_run' = 0
    /\ pose_arg' = NoPoseArg
    /\ lens_arg' = lens_arg
    /\ pc = "alive"
    /\ IF "base" \notin attrs
       THEN /\ last' = Result("read", {}, "AttributeError")
            /\ calls' = << >>
            /\ UNCHANGED << frame, data, output, info, is_outdated, captured, refreshed >>
       ELSE IF SlotsToRefresh = {}
       THEN /\ last' = Result("read", {}, "none")
            /\ calls' = << >>
            /\ UNCHANGED << frame, data, output, info, is_outdated, captured, refreshed >>
       ELSE /\ \A i \in SlotsToRefresh : i \in DOMAIN frame => frame[i] < MaxFrame
            /\ \E failAt \in 0 .. PlannedCalls(SlotsToRefresh) :
               \E r \in {UpdateBuffersImpl(SlotsToRefresh, failAt)} :
                   /\ frame' = r.frame
                   /\ data' = r.data
                   /\ output' = r.output
                   /\ info' = r.info
                   /\ calls' = r.calls
                   /\ is_outdated' = MarkUpdated(r)
                   /\ captured' = captured \cup Stored(r)
                   /\ refreshed' = (refreshed \/ r.err = "none")
                   /\ last' = Result("read", SlotsToRefresh, r.err)
    /\ UNCHANGED << pc, arg, scene, world, tick, attached, backend_calls, attrs,
                    self_cfg, is_initialized, num_envs, view, sensor_prims, paths,
                    registry, gen >>

\* one simulation step followed by update(dt): the renderer shows a new
\* image and, the update period being 0, every slot becomes outdated
SimStep ==
    /\ UNCHANGED << pure, pose_calls, lens_calls >>
    /\ inval_run' = 0
    /\ pose_arg' = NoPoseArg
    /\ lens_arg' = lens_arg
    /\ pc = "alive"
    /\ is_initialized
    /\ tick' = 1 - tick
    /\ is_outdated' = [i \in DOMAIN is_outdated |-> TRUE]
    /\ last' = Result("step", {}, "none")
    /\ calls' = << >>
    /\ UNCHANGED << pc, arg, scene, world, attached, backend_calls, attrs, self_cfg,
                    is_initialized, num_envs, view, frame, sensor_prims, paths,
                    registry, data, output, info, gen, captured, refreshed >>

\* SensorBase.reset(env_ids): the slots are marked outdated
BaseReset(ids) == [i \in DOMAIN is_outdated |-> is_outdated[i] \/ i \in ids]

\* a reset that clears every counter, whatever env_ids is
ClearFrames_All(ids) == [i \in DOMAIN frame |-> 0]

\* self._frame[env_ids] = 0
ClearFrames(ids) == [i \in DOMAIN frame |-> IF i \in ids THEN 0 ELSE frame[i]]

\* Camera.reset(env_ids) with env_ids resolved to `ids`; `all` says that
\* env_ids was None: [err, is_outdated, data, frame]
ResetImpl(ids, all) ==
    LET pose == UpdatePoses(ids, data)
        intr == UpdateIntrinsicMatrices(ids, pose.data)
    IN  CASE "base" \notin attrs ->
                [ err |-> "AttributeError", is_outdated |-> is_outdated, data |-> data,
                  frame |-> frame ]
          [] "base" \in attrs /\ all /\ "indices" \notin attrs ->
                [ err |-> "AttributeError", is_outdated |-> Ones(Len(is_outdated)),
                  data |-> data, frame |-> frame ]
          [] "base" \in attrs /\ ~(all /\ "indices" \notin attrs) /\ pose.err # "none" ->
                [ err |-> pose.err, is_outdated |-> BaseReset(ids), data |-> pose.data,
                  frame |-> frame ]
          [] "base" \in attrs /\ ~(all /\ "indices" \notin attrs) /\ pose.err = "none"
             /\ intr.err # "none" ->
                [ err |-> intr.err, is_outdated |-> BaseReset(ids), data |-> intr.data,
                  frame |-> frame ]
          [] OTHER ->
                [ err |-> "none", is_outdated |-> BaseReset(ids), data |-> intr.data,
                  frame |-> ClearFrames(ids) ]

\* a reset that also blanks the output rows of the slots it is given
Reset_Clearing ==
    /\ UNCHANGED << pure, pose_calls, lens_calls >>
    /\ inval_run' = 0
    /\ pose_arg' = NoPoseArg
    /\ lens_arg' = lens_arg
    /\ pc = "alive"
    /\ \E all \in BOOLEAN :
       \E ids \in (IF all THEN {AllIndices} ELSE SlotSets) :
       \E r \in {ResetImpl(ids, all)} :
           /\ is_outdated' = r.is_outdated
           /\ data' = r.data
           /\ frame' = r.frame
           /\ output' = [T \in DOMAIN output |->
                            [j \in DOMAIN output[T] |->
                                IF j \in ids THEN <<0, 0>> ELSE output[T][j]]]
           /\ last' = Result(IF all THEN "reset_all" ELSE "reset", ids, r.err)
    /\ calls' = << >>
    /\ UNCHANGED << pc, arg, scene, world, tick, attached, backend_calls, attrs,
                    self_cfg, is_initialized, num_envs, view, sensor_prims, paths,
                    registry, info, gen, captured, refreshed >>

\* Camera.reset(env_ids)
Reset ==
    /\ UNCHANGED << pure, pose_calls, lens_calls >>
    /\ inval_run' = 0
    /\ pose_arg' = NoPoseArg
    /\ lens_arg' = lens_arg
    /\ pc = "alive"
    /\ \E all \in BOOLEAN :
       \E ids \in (IF all THEN {AllIndices} ELSE SlotSets) :
       \E r \in {ResetImpl(ids, all)} :
           /\ is_outdated' = r.is_outdated
           /\ data' = r.data
           /\ frame' = r.frame
           /\ last' = Result(IF all THEN "reset_all" ELSE "reset", ids, r.err)
    /\ calls' = << >>
    /\ UNCHANGED << pc, arg, scene, world, tick, attached, backend_calls, attrs,
                    self_cfg, is_initialized, num_envs, view, sensor_prims, paths,
                    registry, output, info, gen, captured, refreshed >>

\* the positions and orientations a caller passes, None as << >>; one value
\* stands for the row of every slot
PositionInputs == { << >>, <<1>> }

OrientationInputs == { << >>, <<GlToWorld>> }

\* XFormPrimView.set_world_poses(positions, orientations, env_ids)
ViewSetWorldPoses(positions, orientations, ids) ==
    [e \in DOMAIN world |->
        IF e \in ids
        THEN [world[e] EXCEPT
                 !.pos = IF positions = << >> THEN @ ELSE positions[1],
                 !.rot = IF orientations = << >> THEN @ ELSE orientations[1]]
        ELSE world[e]]

\* a default convention of "opengl"
ResolveConvention_Gl(convention) == IF convention = "default" THEN "opengl" ELSE convention

\* the default value of the `convention` parameter
ResolveConvention(convention) == IF convention = "default" THEN "ros" ELSE convention

\* Camera.set_world_poses(positions, orientations, env_ids, convention)
SetWorldPoses ==
    /\ UNCHANGED << pure, lens_calls >>
    /\ lens_arg' = lens_arg
    /\ pose_calls < MaxPoseCalls
    /\ pose_calls' = pose_calls + 1
    /\ inval_run' = 0
    /\ pc = "alive"
    /\ \E all \in BOOLEAN :
       \E ids \in (IF all THEN {AllIndices} ELSE SlotSets) :
       \E positions \in PositionInputs, orientations \in OrientationInputs,
          convention \in Conventions \cup {"default"} :
          LET gl == IF orientations = << >> THEN << >>
                    ELSE << ConvertOrientation(orientations[1],
                                               ResolveConvention(convention), "opengl") >>
              err == IF (all /\ "indices" \notin attrs)
                        \/ "view" \notin attrs \/ view.state = "none"
                     THEN "AttributeError" ELSE "none"
          IN  /\ world' = IF err = "none" THEN ViewSetWorldPoses(positions, gl, ids)
                          ELSE world
              /\ last' = Result("set_world_poses", ids, err)
              /\ pose_arg' = [ positions |-> positions, orientations |-> orientations,
                               convention |-> convention ]
    /\ calls' = << >>
    /\ UNCHANGED << pc, arg, scene, tick, attached, backend_calls, attrs, self_cfg,
                    is_initialized, num_envs, is_outdated, view, frame, sensor_prims,
                    paths, registry, data, output, info, gen, captured, refreshed >>

(* --------------------------- lens parameters --------------------------- *)

\* the `params` set_intrinsic_matrices resolves from one matrix
SetFromIntrinsics(matrix, focal_length, height, width) ==
    LET f_x == matrix.m00
        c_x == matrix.m02
        f_y == matrix.m11
        c_y == matrix.m12
    IN  [ focal_length |-> Frac(focal_length, 1),
          horizontal_aperture |-> FracDiv(Frac(width * focal_length, 1), f_x),
          vertical_aperture |-> FracDiv(Frac(height * focal_length, 1), f_y),
          horizontal_aperture_offset |-> FracDiv(FracSub(c_x, Frac(width, 2)), f_x),
          vertical_aperture_offset |-> FracDiv(FracSub(c_y, Frac(height, 2)), f_y) ]

\* the matrix with focal entries f_x, f_y and principal point (c_x, c_y)
Matrix(f_x, f_y, c_x, c_y) ==
    [ZeroIntrinsics EXCEPT !.m00 = f_x, !.m11 = f_y, !.m02 = c_x, !.m12 = c_y,
                           !.m22 = <<1, 1>>]

\* the `matrices` a caller passes for the 4 x 2 image, one row per id: two
\* matrices with square pixels and a centered principal point, a matrix
\* with f_x # f_y next to one with the principal point off the center, and
\* three rows
MatrixInputs ==
    { << Matrix(<<2, 1>>, <<2, 1>>, <<2, 1>>, <<1, 1>>),
         Matrix(<<3, 1>>, <<3, 1>>, <<2, 1>>, <<1, 1>>) >>,
      << Matrix(<<2, 1>>, <<4, 1>>, <<2, 1>>, <<1, 1>>),
         Matrix(<<1, 1>>, <<1, 1>>, <<3, 1>>, <<1, 2>>) >>,
      << Matrix(<<4, 1>>, <<4, 1>>, <<2, 1>>, <<1, 1>>),
         Matrix(<<1, 1>>, <<1, 1>>, <<2, 1>>, <<1, 1>>),
         Matrix(<<8, 1>>, <<8, 1>>, <<2, 1>>, <<1, 1>>) >> }

\* the `focal_length` a caller passes
FocalInputs == { 1, 2 }

\* the `env_ids` a caller passes: slot ids in the order given
IdSeqs ==
    IF "indices" \in attrs /\ Len(frame) > 0
    THEN { q \in UNION { [1 .. n -> 1 .. Len(frame)] : n \in 1 .. Len(frame) } :
             \A a, b \in DOMAIN q : a # b => q[a] # q[b] }
    ELSE { <<1>> }

\* omni.usd.set_prop_val for each of the five params on the prim `e`
SetPropVals(w, e, params) ==
    [w EXCEPT ![e] = [@ EXCEPT
        !.focal_length = params.focal_length,
        !.horiz_aperture = params.horizontal_aperture,
        !.vertical_aperture = params.vertical_aperture,
        !.horizontal_aperture_offset = params.horizontal_aperture_offset,
        !.vertical_aperture_offset = params.vertical_aperture_offset]]

RECURSIVE SetIntrinsicsLoop(_, _, _, _)
\* `for i, matrix in zip(env_ids, matrices)` of set_intrinsic_matrices on
\* the stage `w`: [err, world]
SetIntrinsicsLoop(ids, matrices, focal_length, w) ==
    IF ids = << >> \/ matrices = << >> THEN [err |-> "none", world |-> w]
    ELSE LET i == Head(ids)
             params == SetFromIntrinsics(Head(matrices), focal_length,
                                         self_cfg.height, self_cfg.width)
         IN  IF i > Len(sensor_prims) THEN [err |-> "IndexError", world |-> w]
             ELSE SetIntrinsicsLoop(Tail(ids), Tail(matrices), focal_length,
                                    SetPropVals(w, sensor_prims[i].prim, params))

\* Camera.set_intrinsic_matrices(matrices, focal_length, env_ids); `all`
\* says that env_ids was None
SetIntrinsicMatrices ==
    /\ UNCHANGED << pure, pose_calls >>
    /\ inval_run' = 0
    /\ pose_arg' = NoPoseArg
    /\ lens_calls < MaxLensCalls
    /\ lens_calls' = lens_calls + 1
    /\ pc = "alive"
    /\ \E all \in BOOLEAN :
       \E ids \in (IF all THEN {SetToSeq(AllIndices)} ELSE IdSeqs) :
       \E matrices \in MatrixInputs, focal_length \in FocalInputs :
       \E r \in { IF all /\ "indices" \notin attrs
                  THEN [err |-> "AttributeError", world |-> world]
                  ELSE SetIntrinsicsLoop(ids, matrices, focal_length, world) } :
           /\ world' = r.world
           /\ last' = Result("set_intrinsics", Range(ids), r.err)
           /\ lens_arg' = [ matrices |-> matrices, focal_length |-> focal_length,
                            env_ids |-> ids, all |-> all, err |-> r.err ]
    /\ calls' = << >>
    /\ UNCHANGED << pc, arg, scene, tick, attached, backend_calls, attrs, self_cfg,
                    is_initialized, num_envs, is_outdated, view, frame, sensor_prims,
                    paths, registry, data, output, info, gen, captured, refreshed >>

\* the lenses and image sizes the computation is followed for
MaxFocal == 3
MaxAperture == 4
ImageSizes == { <<2, 3>>, <<2, 4>>, <<3, 3>>, <<3, 4>> }

\* a lens (f, a) and an image size (h, w) are given; no Camera object is
\* involved
InitIntrinsics ==
    /\ Blank
    /\ arg = NoArg
    /\ scene = [num_envs |-> 0, prims |-> << >>]
    /\ world = << >>
    /\ conv = NoConv
    /\ lens \in { [NoLens EXCEPT !.f = f, !.a = a, !.h = s[1], !.w = s[2]] :
                    f \in 1 .. MaxFocal, a \in 1 .. MaxAperture, s \in ImageSizes }

\* the matrix _update_intrinsic_matrices stores for the lens
ComputeMatrix ==
    /\ lens.stage = 0
    /\ lens' = [lens EXCEPT !.matrix = ComputeIntrinsics(Frac(lens.f, 1), Frac(lens.a, 1),
                                                         lens.h, lens.w),
                            !.stage = 1]
    /\ UNCHANGED << camera, conv >>

\* set_intrinsic_matrices with that matrix and the same focal length
SetFromMatrix ==
    /\ lens.stage = 1
    /\ lens' = [lens EXCEPT !.params = SetFromIntrinsics(lens.matrix, lens.f, lens.h, lens.w),
                            !.stage = 2]
    /\ UNCHANGED << camera, conv >>

NextIntrinsics ==
    \/ ComputeMatrix
    \/ SetFromMatrix

\* an intrinsic matrix computed from a lens and set again
SpecIntrinsics == InitIntrinsics /\ [][NextIntrinsics]_vars

(* ------------------------- convention conversion ----------------------- *)

\* the orientations that are converted: products of the convention
\* rotations and their inverses
Orientations ==
    LET gens == { Identity, GlToRos, GlToWorld, Transpose(GlToWorld) }
    IN  { MatMul(a, b) : a \in gens, b \in gens }

\* the positions that go with them
Positions == { 0, 7 }

\* a pose in convention A is about to be converted to convention B; no
\* Camera object is involved
InitConvert ==
    /\ Blank
    /\ arg = NoArg
    /\ scene = [num_envs |-> 0, prims |-> << >>]
    /\ world = << >>
    /\ lens = NoLens
    /\ conv \in { [NoConv EXCEPT !.p = p, !.o = o, !.origin = A, !.target = B] :
                    p \in Positions, o \in Orientations, A \in Conventions,
                    B \in Conventions }

\* orientations = convert_orientation_convention(orientations, origin, target);
\* the position is not passed to the conversion
ConvertThere ==
    /\ conv.stage = 0
    /\ conv.origin \in Conventions
    /\ conv' = [conv EXCEPT !.there = ConvertOrientation(conv.o, conv.origin, conv.target),
                            !.p_there = conv.p,
                            !.stage = 1]
    /\ UNCHANGED << camera, lens >>

\* the result converted back to the convention it came from
ConvertBack ==
    /\ conv.stage = 1
    /\ conv' = [conv EXCEPT !.back = ConvertOrientation(conv.there, conv.target, conv.origin),
                            !.p_back = conv.p_there,
                            !.stage = 2]
    /\ UNCHANGED << camera, lens >>

NextConvert ==
    \/ ConvertThere
    \/ ConvertBack

\* a convention conversion and the conversion back
SpecConvert == InitConvert /\ [][NextConvert]_vars

(* ---------------------------- specifications --------------------------- *)

Next ==
    \/ Construct
    \/ Initialize
    \/ Invalidate
    \/ Dispose
    \/ ReadData
    \/ SimStep
    \/ Reset

\* construction, initialization, capture, reset and teardown
Spec == Init /\ [][Next]_vars

NextLifecycle ==
    \/ Construct
    \/ Initialize
    \/ Invalidate
    \/ Dispose

\* construction, initialization, invalidation and teardown alone
SpecLifecycle == Init /\ [][NextLifecycle]_vars

\* type lists with the segmentation types and with plain image types
BindingTypeLists ==
    { <<"rgb", "semantic_segmentation">>,
      <<"instance_segmentation", "instance_id_segmentation">>,
      <<"distance_to_camera", "instance_id_segmentation">> }

\* configurations that pass the checks of the constructor, with either
\* value of the colorize flag
BindingCfgs ==
    [ leaf : {<<"C", "a", "m", "_", "1">>}, data_types : BindingTypeLists,
      spawn : BOOLEAN, width : {4}, height : {2}, colorize : BOOLEAN,
      semantic_types : {<<"class">>} ]

InitBindings ==
    /\ arg \in BindingCfgs
    /\ scene \in Scenes
    /\ world = [e \in DOMAIN scene.prims |-> InitialPrim(e)]
    /\ Blank
    /\ conv = NoConv
    /\ lens = NoLens

\* the lifecycle for configurations that request segmentation types
SpecBindings == InitBindings /\ [][NextLifecycle]_vars

\* one configuration that constructs: the camera prims are authored
InitPose ==
    /\ Init
    /\ arg.leaf = <<"C", "a", "m", "_", "1">>
    /\ arg.data_types = <<"rgb", "semantic_segmentation">>
    /\ ~arg.spawn

NextPose ==
    \/ Construct
    \/ Initialize
    \/ Invalidate
    \/ Dispose
    \/ Reset
    \/ SetWorldPoses

\* the lifecycle with the pose-setting calls and the resets that read the
\* poses back
SpecPose == InitPose /\ [][NextPose]_vars

NextLens ==
    \/ Construct
    \/ Initialize
    \/ Dispose
    \/ ReadData
    \/ Reset
    \/ SetIntrinsicMatrices

\* the lifecycle with the lens-setting call and the refreshes and resets
\* that compute the intrinsic matrices
SpecLens == InitPose /\ [][NextLens]_vars

(* ------------------------------- claims -------------------------------- *)

\* the configuration the constructor was called with
ConstructedWith == IF pc = "ctor_failed" THEN arg ELSE self_cfg

\* C1 as stated: every construction with an unsupported output type raises
\* ValueError before any spawn, entity resolution, capture-target creation
\* or attach.
C1_Original ==
    (pc \notin {"new", "disposed"} /\ UnsupportedRequested(ConstructedWith) # {})
        => (pc = "ctor_failed" /\ last.err = "ValueError" /\ backend_calls = {}
            /\ attached = {})

\* C1 amended: every construction whose path leaf passes the leaf check and
\* whose output types include an unsupported one raises ValueError before
\* any spawn, entity resolution, capture-target creation or attach.
C1_UnsupportedTypeRejected ==
    (/\ pc \notin {"new", "disposed"}
     /\ Range(ConstructedWith.data_types) \cap UNSUPPORTED_TYPES # {}
     /\ LeafMatches(ConstructedWith.leaf))
        => (pc = "ctor_failed" /\ last.err = "ValueError" /\ backend_calls = {}
            /\ attached = {})

\* a construction that asked for a spawn and for an unsupported type has
\* failed with ValueError, nothing spawned
C1_Witness ==
    /\ pc = "ctor_failed"
    /\ last = Result("construct", {}, "ValueError")
    /\ arg.spawn
    /\ "bounding_box_3d" \in Range(arg.data_types)
    /\ scene.num_envs = 2
    /\ backend_calls = {}

\* the path resolves to at least one prim, as many as there are
\* environments, all of them cameras
ResolvesToCameras ==
    /\ Len(scene.prims) >= 1
    /\ Len(scene.prims) = scene.num_envs
    /\ \A e \in DOMAIN scene.prims : scene.prims[e] = "Camera"

\* C8: the batch is ready only if the path resolves to at least one entity,
\* to as many entities as environments, and to cameras only; otherwise the
\* batch is not ready and the construction or the initialization raises
\* RuntimeError (when the backend has not failed on an earlier prim).
C8_ReadyOnlyIfResolved ==
    /\ is_initialized => ResolvesToCameras
    /\ (last.op = "initialize" /\ ~ResolvesToCameras)
          => (last.err \in {"RuntimeError", "BackendError"} /\ ~is_initialized)
    /\ (last.op = "initialize" /\ Len(scene.prims) # scene.num_envs)
          => (last.err = "RuntimeError" /\ ~is_initialized)
    /\ (/\ pc \notin {"new", "disposed"}
        /\ "cfg" \in attrs
        /\ Len(scene.prims) = 0)
          => (pc = "ctor_failed" /\ last.err = "RuntimeError")

\* an initialization stopped at the second prim, which is not a camera
C8_Witness ==
    /\ last = Result("initialize", {}, "RuntimeError")
    /\ scene.prims = <<"Camera", "Xform">>
    /\ scene.num_envs = 2
    /\ ~is_initialized
    /\ Len(sensor_prims) = 1

\* the leaf holds a character outside letters, digits, "/" and "_"
HasRegexChar(leaf) == \E i \in DOMAIN leaf : leaf[i] \notin WordChars

\* C9 as stated: a path whose leaf holds a wildcard or regex character is
\* rejected with RuntimeError before the data-type check, the spawn and the
\* entity resolution.
C9_Claim ==
    (pc \notin {"new", "disposed"} /\ HasRegexChar(ConstructedWith.leaf))
        => (pc = "ctor_failed" /\ last.err = "RuntimeError" /\ backend_calls = {})

\* C10: a reset that returns sets the frame counter of every slot it was
\* given to 0 and leaves the other counters unchanged; without indices it
\* sets all N counters to 0; a reset that raises changes no counter.
C10_ResetClearsFrames ==
    [][ last'.op \in {"reset", "reset_all"} =>
            IF last'.err = "none"
            THEN /\ DOMAIN frame' = DOMAIN frame
                 /\ \A i \in DOMAIN frame :
                       frame'[i] = IF i \in last'.ids THEN 0 ELSE frame[i]
                 /\ last'.op = "reset_all" => \A i \in DOMAIN frame : frame'[i] = 0
            ELSE frame' = frame ]_vars

\* reset of the first of two slots, the second counter still 2
C10_Witness ==
    /\ last = Result("reset", {1}, "none")
    /\ frame = <<0, 2>>

\* the output types the batch was configured with
RequestedTypes == Range(self_cfg.data_types)

\* C2 as stated: in every state the output mapping has key T exactly when T
\* has been captured for at least one slot since initialization.
C2_Original ==
    "buffers" \in attrs =>
        \A T \in RequestedTypes :
            T \in DOMAIN output <=> \E i \in DOMAIN frame : << T, i >> \in captured

\* C2 amended: in every state, also after a capture raised part-way through
\* a refresh, the output mapping has key T exactly when the captures of T
\* for all N slots have been stored since initialization; captures of T for
\* only some of the slots leave the key absent.
C2_KeyIffAllSlotsCaptured ==
    "buffers" \in attrs =>
        \A T \in RequestedTypes :
            T \in DOMAIN output <=> \A i \in DOMAIN frame : << T, i >> \in captured

\* the first refresh raised at the second slot of the first type: the first
\* slot's capture is stored and the type has no key
C2_Witness ==
    /\ last = Result("read", {1, 2}, "CaptureError")
    /\ captured = { << "rgb", 1 >> }
    /\ DOMAIN output = {}
    /\ Len(calls) = 2

\* the info a capture through `ann` stores
ExpectedInfo(ann) ==
    IF ann.name \in StructuredTypes THEN << "idToLabels", ann.slot, tick >> ELSE << >>

\* C3: the first refresh that returns after initialization calls get_data
\* for each of the N indices of every requested type; after it every
\* requested type has a buffer of N rows and every info entry holds the
\* info of its capture; a later refresh that returns adds and removes no
\* buffer, keeps every buffer's N rows and changes only rows of the slots
\* it refreshes.
C3_FirstRefreshAllocatesAll ==
    [][ (last'.op = "read" /\ last'.ids # {} /\ last'.err = "none") =>
            IF ~refreshed
            THEN /\ \A T \in RequestedTypes : \A i \in DOMAIN frame :
                        \E n \in DOMAIN calls' :
                            /\ calls'[n].fn = "get_data"
                            /\ calls'[n].ann = registry[T][i]
                            /\ calls'[n].index = i
                 /\ \A T \in RequestedTypes :
                        T \in DOMAIN output' /\ Len(output'[T]) = Len(frame)
                 /\ \A T \in RequestedTypes : \A i \in DOMAIN frame :
                        info'[i][T] = ExpectedInfo(registry[T][i])
            ELSE /\ DOMAIN output' = DOMAIN output
                 /\ \A T \in DOMAIN output :
                        /\ Len(output'[T]) = Len(output[T])
                        /\ \A i \in DOMAIN output[T] :
                              i \notin last'.ids => output'[T][i] = output[T][i] ]_vars

\* the first read of two slots and two types has returned
C3_Witness ==
    /\ last = Result("read", {1, 2}, "none")
    /\ gen = 1
    /\ frame = <<1, 1>>
    /\ Len(calls) = 4
    /\ DOMAIN output = {"rgb", "semantic_segmentation"}
    /\ info[2]["semantic_segmentation"] = << "idToLabels", 2, tick >>

\* C4: a read that follows a read that returned, with nothing in between,
\* calls no get_data, increments no frame counter and leaves the buffers as
\* they were; any read refreshes only slots that are outdated.
C4_ReadIsIdempotent ==
    [][ last'.op = "read" =>
            /\ (last.op = "read" /\ last.err = "none") =>
                   /\ calls' = << >>
                   /\ frame' = frame
                   /\ output' = output
                   /\ info' = info
                   /\ data' = data
            /\ \A i \in DOMAIN frame :
                   frame'[i] # frame[i] => (i \in DOMAIN is_outdated /\ is_outdated[i])
            /\ DOMAIN output # {} =>
                   \A n \in DOMAIN calls' : is_outdated[calls'[n].index] ]_vars

\* a read in the ready state that found no slot outdated
C4_Witness ==
    /\ last = Result("read", {}, "none")
    /\ is_initialized
    /\ refreshed
    /\ frame = <<1, 1>>
    /\ DOMAIN output = {"rgb", "semantic_segmentation"}

\* C5: when a capture raises during a refresh, every output row and info
\* entry holds what an earlier capture of the same refresh wrote to it, or
\* else its value from before the refresh; this includes the row of the
\* failing slot for the failing type, and no buffer disappears.
C5_FailureLeavesOtherSlots ==
    [][ (last'.op = "read" /\ last'.err = "CaptureError") =>
            LET done == Len(calls') - 1
                Call(T, j) == { n \in 1 .. done :
                                  calls'[n].ann.name = T /\ calls'[n].index = j }
                Ann(T, j) == calls'[CHOOSE n \in Call(T, j) : TRUE].ann
            IN  /\ \A T \in DOMAIN output :
                       /\ T \in DOMAIN output'
                       /\ DOMAIN output'[T] = DOMAIN output[T]
                       /\ \A j \in DOMAIN output[T] :
                             output'[T][j] = IF Call(T, j) # {}
                                             THEN << Ann(T, j).slot, tick >>
                                             ELSE output[T][j]
                /\ \A T \in DOMAIN output' \ DOMAIN output :
                       \A j \in DOMAIN output'[T] :
                           Call(T, j) # {} /\ output'[T][j] = << Ann(T, j).slot, tick >>
                /\ \A j \in DOMAIN info : \A T \in DOMAIN info[j] :
                       info'[j][T] = IF Call(T, j) # {} THEN ExpectedInfo(Ann(T, j))
                                     ELSE info[j][T] ]_vars

\* the capture of the second slot raised after the first slot's row was
\* overwritten: the second row still holds the previous image
C5_Witness ==
    /\ last = Result("read", {1, 2}, "CaptureError")
    /\ Len(calls) = 2
    /\ DOMAIN output = {"rgb", "semantic_segmentation"}
    /\ output["rgb"] = << <<1, tick>>, <<2, 1 - tick>> >>

\* C6 as stated: disposing a batch that was initialized once and never
\* invalidated calls detach exactly once on every attached annotator, with
\* the render product it is attached to, and leaves none attached.
C6_Claim ==
    [][ (pc = "alive" /\ pc' = "disposed" /\ is_initialized /\ gen = 1) =>
            /\ \A a \in attached :
                  /\ Cardinality({ n \in DOMAIN calls' : calls'[n].ann = a }) = 1
                  /\ \A n \in DOMAIN calls' :
                        calls'[n].ann = a =>
                            (calls'[n].fn = "detach" /\ calls'[n].path = PathOf(a))
            /\ attached' = {} ]_vars

\* C7 as stated: disposing a batch that is not ready (never initialized,
\* initialization aborted, or invalidated) does not raise and leaves no
\* annotator attached.
C7_Claim ==
    [][ (pc = "alive" /\ pc' = "disposed" /\ ~is_initialized /\ gen <= 1) =>
            (last'.err = "none" /\ attached' = {}) ]_vars

\* C11: a reset, whether it returns or raises, changes no output row and no
\* info entry of any slot, adds and removes no output key and calls no
\* get_data; the buffers after it are those the last refresh wrote.
C11_ResetKeepsBuffers ==
    [][ last'.op \in {"reset", "reset_all"} =>
            /\ output' = output
            /\ info' = info
            /\ calls' = << >>
            /\ captured' = captured ]_vars

\* the first of two slots was reset after a refresh: its counter is 0 and
\* its rows still hold the images of that refresh
C11_Witness ==
    /\ last = Result("reset", {1}, "none")
    /\ frame = <<0, 1>>
    /\ DOMAIN output = {"rgb", "semantic_segmentation"}
    /\ output["rgb"] = << <<1, tick>>, <<2, tick>> >>
    /\ info[1]["semantic_segmentation"] = << "idToLabels", 1, tick >>

\* the pose and intrinsics the scene graph gives slot i: the position and
\* lens of the i-th matched prim, its orientation in the convention the
\* sensor stores
ScenePose(i) ==
    [ pos_w |-> world[i].pos,
      quat_w_world |-> ConvertOrientation(world[i].rot, "opengl", "world"),
      intrinsic_matrices |->
          ComputeIntrinsics(world[i].focal_length, world[i].horiz_aperture,
                            self_cfg.height, self_cfg.width) @@ ZeroIntrinsics ]

\* the pose and intrinsics stored for slot i in the data `d`
StoredPose(d, i) ==
    [ pos_w |-> d.pos_w[i], quat_w_world |-> d.quat_w_world[i],
      intrinsic_matrices |-> d.intrinsic_matrices[i] ]

\* C12 as stated: when a reset returns, the stored position, orientation
\* and intrinsic matrix of every slot it was given are those of the slot's
\* prim in the scene graph at the time of the call, and those of the other
\* slots are unchanged.
C12_Claim ==
    [][ (last'.op \in {"reset", "reset_all"} /\ last'.err = "none") =>
            \A i \in DOMAIN frame :
                StoredPose(data', i) = IF i \in last'.ids THEN ScenePose(i)
                                       ELSE StoredPose(data, i) ]_vars

\* C13: every refresh increases the frame counter of each slot it includes
\* by exactly 1, also when it raises after the increment, and changes no
\* other counter; a counter decreases only in a reset, an initialization
\* or the disposal, so it counts the refreshes of its slot since then.
C13_FrameCountsRefreshes ==
    [][ /\ (last'.op = "read" /\ "indices" \in attrs) =>
               /\ DOMAIN frame' = DOMAIN frame
               /\ \A i \in DOMAIN frame :
                     frame'[i] = IF i \in last'.ids THEN frame[i] + 1 ELSE frame[i]
        /\ \A i \in DOMAIN frame :
               (i \notin DOMAIN frame' \/ frame'[i] < frame[i]) =>
                   \/ last'.op \in {"initialize", "dispose"}
                   \/ last'.op \in {"reset", "reset_all"} /\ i \in last'.ids
        /\ \A i \in DOMAIN frame' :
               (i \in DOMAIN frame /\ frame'[i] > frame[i]) =>
                   (last'.op = "read" /\ i \in last'.ids) ]_vars

\* the second slot was refreshed twice; the first was reset in between and
\* refreshed once since
C13_Witness ==
    /\ last = Result("read", {1}, "none")
    /\ frame = <<1, 2>>
    /\ is_initialized

\* C14 as stated: in every ready state, also one reached by initializing
\* again after an invalidation, the sensor records, the render products and
\* the annotators of each requested type are N each, N the number of prims
\* the path matches, and the sensor record of slot i is the handle this
\* initialization made for the i-th matched prim. (The annotator count is
\* stated for type lists without a repeated name.)
C14_Claim ==
    is_initialized =>
        LET N == Len(scene.prims)
        IN  /\ Len(sensor_prims) = N
            /\ Len(paths) = N
            /\ Len(Dedup(self_cfg.data_types)) = Len(self_cfg.data_types) =>
                  \A T \in RequestedTypes : Len(registry[T]) = N
            /\ \A i \in 1 .. N :
                  i \in DOMAIN sensor_prims /\ sensor_prims[i] = [gen |-> gen, prim |-> i]

\* C15 as stated: while the batch is not ready (never initialized, or
\* invalidated and not initialized again), every pose-setting, reset and
\* data-read call raises RuntimeError, changes no stored pose, intrinsics,
\* counter or buffer and writes nothing to the scene graph.
C15_Claim ==
    [][ (/\ pc = "alive"
         /\ ~is_initialized
         /\ last'.op \in {"read", "reset", "reset_all", "set_world_poses"}) =>
            /\ last'.err = "RuntimeError"
            /\ UNCHANGED << world, data, frame, output, info >> ]_vars

\* C16: the invalidation callback can run in every state of a constructed
\* batch, never raises, and a call that directly follows another one
\* leaves the state as the first call left it.
C16_InvalidateIdempotent ==
    /\ []((pc = "alive" /\ inval_run < MaxInvalidations) => ENABLED Invalidate)
    /\ [][ inval_run' = inval_run + 1 =>
               /\ last'.op = "invalidate" /\ last'.err = "none"
               /\ ~is_initialized' /\ view'.state = "none"
               /\ inval_run >= 1 =>
                     UNCHANGED << pc, arg, scene, world, tick, attached, backend_calls,
                                  attrs, self_cfg, is_initialized, num_envs, is_outdated,
                                  view, frame, sensor_prims, paths, registry, data,
                                  output, info, gen, last, calls, captured, refreshed,
                                  pose_arg, pose_calls, lens_arg, lens_calls, conv, lens >> ]_vars

\* the callback ran twice in a row on an initialized batch
C16_Witness ==
    /\ inval_run = 2
    /\ last = Result("invalidate", {}, "none")
    /\ gen = 1
    /\ "buffers" \in attrs
    /\ ~is_initialized
    /\ view.state = "none"

\* C17 as stated: after a refresh or a reset of slot i that returns, the
\* stored position of slot i is the scene graph's position of its prim and
\* the stored orientation is the prim's orientation converted from the
\* optical to the robotics convention.
C17_Claim ==
    [][ (last'.op \in {"read", "reset", "reset_all"} /\ last'.err = "none") =>
            \A i \in last'.ids :
                /\ data'.pos_w[i] = world[i].pos
                /\ data'.quat_w_world[i] =
                       ConvertOrientation(world[i].rot, "opengl", "ros") ]_vars

\* C18: set_world_poses changes none of the stored poses, intrinsics, frame
\* counters and output buffers; when it returns it has written to the scene
\* graph only for the slots it was given: their position is the given one,
\* or unchanged when none was given, and their orientation is unchanged
\* when none was given and otherwise the native orientation that reads
\* back, in the given convention ("ros" when none is named), as the given
\* orientation; when it raises the scene graph is unchanged.
C18_SetWorldPosesWritesGivenSlots ==
    [][ last'.op = "set_world_poses" =>
            /\ UNCHANGED << data, frame, output, info, is_outdated >>
            /\ DOMAIN world' = DOMAIN world
            /\ \A e \in DOMAIN world :
                  IF last'.err = "none" /\ e \in last'.ids
                  THEN /\ world'[e].pos = IF pose_arg'.positions = << >> THEN world[e].pos
                                          ELSE pose_arg'.positions[1]
                       /\ IF pose_arg'.orientations = << >>
                          THEN world'[e].rot = world[e].rot
                          ELSE ConvertOrientation(world'[e].rot, "opengl",
                                   IF pose_arg'.convention = "default" THEN "ros"
                                   ELSE pose_arg'.convention)
                               = pose_arg'.orientations[1]
                       /\ world'[e].focal_length = world[e].focal_length
                       /\ world'[e].horiz_aperture = world[e].horiz_aperture
                  ELSE world'[e] = world[e] ]_vars

\* an orientation was set for the second of two slots without naming a
\* convention and without a position
C18_Witness ==
    /\ last = Result("set_world_poses", {2}, "none")
    /\ pose_arg.convention = "default"
    /\ pose_arg.positions = << >>
    /\ pose_arg.orientations = << GlToWorld >>
    /\ world[1] = InitialPrim(1)
    /\ world[2].pos = InitialPrim(2).pos
    /\ world[2].rot = MatMul(GlToWorld, Transpose(GlToRos))

\* C19: for every ordered pair of conventions (A, B), every orientation and
\* every position, converting from A to B leaves the position as it is and
\* converting the result from B back to A returns the orientation and the
\* position that were given.
C19_ConversionRoundTrip ==
    /\ conv.stage >= 1 => conv.p_there = conv.p
    /\ conv.stage = 2 => (conv.back = conv.o /\ conv.p_back = conv.p)

\* a pose went from the world convention to the robotics one, which changed
\* its orientation, and back
C19_Witness ==
    /\ conv.stage = 2
    /\ conv.origin = "world" /\ conv.target = "ros"
    /\ conv.o = GlToWorld /\ conv.p = 7
    /\ conv.there # conv.o
    /\ conv.back = conv.o

\* C20: for every focal length f > 0, horizontal aperture a > 0 and image
\* size h, w > 0, the intrinsic matrix computed from (f, a, h, w), set
\* again with the same f, gives the focal length f, the horizontal aperture
\* a and horizontal and vertical aperture offsets of 0.
C20_IntrinsicsRoundTrip ==
    lens.stage = 2 =>
        /\ lens.params.focal_length = << lens.f, 1 >>
        /\ lens.params.horizontal_aperture = << lens.a, 1 >>
        /\ lens.params.horizontal_aperture_offset = << 0, 1 >>
        /\ lens.params.vertical_aperture_offset = << 0, 1 >>

\* a lens whose focal length in pixels is not an integer (9/4) was computed
\* and set again
C20_Witness ==
    /\ lens.stage = 2
    /\ lens.f = 3 /\ lens.a = 4 /\ lens.h = 2 /\ lens.w = 3
    /\ lens.matrix.m00 = << 9, 4 >>
    /\ lens.matrix.m02 = << 3, 2 >>
    /\ lens.params.horizontal_aperture = << 4, 1 >>

\* C28 as stated: when a refresh raises, because the pose query fails or
\* because a capture of some slot fails, the frame counter, the stored pose
\* and the stored intrinsic matrix of every slot are what they were before
\* the call.
C28_Claim ==
    [][ (last'.op = "read" /\ last'.ids # {} /\ last'.err # "none") =>
            UNCHANGED << frame, data >> ]_vars

\* C27 as stated: when a capture has raised during the first, allocating
\* refresh after the buffer of at least one output type was stored, a later
\* refresh in which no capture raises returns without error and leaves a
\* buffer of N rows for every requested output type.
C27_Claim ==
    [][ (/\ is_initialized
         /\ ~refreshed
         /\ DOMAIN output # {}
         /\ last'.op = "read"
         /\ last'.ids # {}
         /\ last'.err # "CaptureError") =>
            /\ last'.err = "none"
            /\ \A T \in RequestedTypes :
                  T \in DOMAIN output' /\ Len(output'[T]) = Len(frame) ]_vars

\* C26 as stated: in every reachable state of a live batch, every annotator
\* that is attached to a render product is recorded in the registry, so
\* that the disposal detaches it; initializing again after an invalidation
\* or after an aborted initialization leaves no annotator of the previous
\* run attached and out of the registry.
C26_Claim ==
    pc = "alive" =>
        \A a \in attached :
            /\ "registry" \in attrs
            /\ a.name \in DOMAIN registry
            /\ a \in Range(registry[a.name])

\* C25 as stated: after a successful initialization the registry holds, for
\* every requested output type, also one that cfg.data_types names more
\* than once, exactly N annotators, and the annotator at index i is the one
\* attached to the render product of slot i.
C25_Claim ==
    is_initialized =>
        \A T \in RequestedTypes :
            /\ Len(registry[T]) = Len(scene.prims)
            /\ \A i \in DOMAIN registry[T] :
                  /\ i \in DOMAIN paths
                  /\ PathOf(registry[T][i]) = paths[i]
                  /\ registry[T][i] \in attached

\* C24: every payload is normalised to a (data, info) pair, a dict giving
\* its "data" and "info" fields and any other payload itself and no info;
\* a refresh stores, for every capture it completes, that info in the entry
\* of the captured slot and type and that data in the slot's row, and it
\* changes the info entry of no other slot or type.
C24_InfoOfCapture ==
    [][ last'.op = "read" =>
            LET kept == IF last'.err \in {"CaptureError", "KeyError"}
                        THEN SubSeq(calls', 1, Len(calls') - 1) ELSE calls'
                Call(T, j) == { n \in DOMAIN kept :
                                  kept[n].ann.name = T /\ kept[n].index = j }
                Payload(T, j) == GetData(kept[CHOOSE n \in Call(T, j) : TRUE].ann)
            IN  /\ DOMAIN info' = DOMAIN info
                /\ \A j \in DOMAIN info :
                       /\ DOMAIN info'[j] = DOMAIN info[j]
                       /\ \A T \in DOMAIN info[j] :
                             IF Call(T, j) = {}
                             THEN info'[j][T] = info[j][T]
                             ELSE /\ info'[j][T] = IF Payload(T, j).is_dict
                                                   THEN Payload(T, j).info ELSE << >>
                                  /\ T \in DOMAIN output' =>
                                         output'[T][j] = Payload(T, j).data ]_vars

\* the renderer showed a new image and the capture of the second slot's
\* segmentation raised: the info of the first slot is that of the new
\* image, the info of the second slot is still that of the previous one,
\* and the rgb entries hold no info
C24_Witness ==
    /\ last = Result("read", {1, 2}, "CaptureError")
    /\ Len(calls) = 4
    /\ info[1]["semantic_segmentation"] = << "idToLabels", 1, tick >>
    /\ info[2]["semantic_segmentation"] = << "idToLabels", 2, 1 - tick >>
    /\ info[1]["rgb"] = << >>
    /\ output["semantic_segmentation"][1] = << 1, tick >>

\* the init_params that carry both the semantic-type filter and the
\* colorize flag of the configuration
BothParams ==
    Params({ <<"semanticTypes", self_cfg.semantic_types>>,
             <<"colorize", self_cfg.colorize>> })

\* C23 as stated: every annotator of a type of the segmentation family
\* (semantic_segmentation, instance_segmentation, instance_id_segmentation)
\* is created with init_params that carry both the configured colorize flag
\* and the configured semantic-type filter; every other annotator is
\* created without init_params.
C23_Original ==
    pc = "alive" =>
        \A a \in attached :
            a.params = IF a.name \in StructuredTypes THEN BothParams ELSE NoParams

\* C23: an annotator of type semantic_segmentation or instance_segmentation
\* is created with init_params that carry the configured colorize flag and
\* the configured semantic-type filter, an annotator of type
\* instance_id_segmentation with init_params that carry the colorize flag
\* alone, and an annotator of any other requested type without init_params.
C23_InitParamsByType ==
    pc = "alive" =>
        \A a \in attached :
            a.params =
                CASE a.name \in {"semantic_segmentation", "instance_segmentation"} ->
                        BothParams
                  [] a.name = "instance_id_segmentation" ->
                        Params({ <<"colorize", self_cfg.colorize>> })
                  [] OTHER -> NoParams

\* a batch with colorize set was initialized for distance_to_camera and
\* instance_id_segmentation: the first annotator has no init_params, the
\* second has the colorize flag and no semantic-type filter
C23_Witness ==
    /\ is_initialized
    /\ self_cfg.colorize
    /\ self_cfg.data_types = <<"distance_to_camera", "instance_id_segmentation">>
    /\ \E a \in attached :
          a.name = "instance_id_segmentation" /\ a.params = Params({ <<"colorize", TRUE>> })
    /\ \E a \in attached :
          a.name = "distance_to_camera" /\ a.params = NoParams

\* C29: in no reachable state is there an annotator, attached or in the
\* registry, for bounding_box_2d_tight, bounding_box_2d_loose or
\* bounding_box_3d, and no annotator was created with the init_params of
\* the bounding-box branch (the semantic-type filter alone): the
\* constructor has rejected every configuration that requests these types.
C29_NoBoundingBoxBinding ==
    /\ \A a \in attached :
          /\ a.name \notin UNSUPPORTED_TYPES
          /\ { p[1] : p \in a.params.items } # {"semanticTypes"}
    /\ DOMAIN registry \cap UNSUPPORTED_TYPES = {}
    /\ \A T \in DOMAIN registry :
          \A j \in DOMAIN registry[T] : registry[T][j].name \notin UNSUPPORTED_TYPES
    /\ (pc = "alive" /\ "cfg" \in attrs) => UnsupportedRequested(self_cfg) = {}

\* a configuration with a plain leaf that asks for bounding_box_2d_loose
\* and rgb was rejected by the constructor: nothing was attached
C29_Witness ==
    /\ pc = "ctor_failed"
    /\ last = Result("construct", {}, "ValueError")
    /\ arg.data_types = <<"bounding_box_2d_loose", "rgb">>
    /\ attached = {}
    /\ "render_product" \notin backend_calls

\* the lens attributes of a prim
LensOf(p) ==
    [ focal_length |-> p.focal_length,
      horizontal_aperture |-> p.horiz_aperture,
      vertical_aperture |-> p.vertical_aperture,
      horizontal_aperture_offset |-> p.horizontal_aperture_offset,
      vertical_aperture_offset |-> p.vertical_aperture_offset ]

\* the matrix has square pixels and its principal point at the image center
SquareCentered(m) ==
    /\ m.m00 = m.m11
    /\ m.m02 = Frac(self_cfg.width, 2)
    /\ m.m12 = Frac(self_cfg.height, 2)

\* the positions of `matrices` that zip(env_ids, matrices) pairs with an id
Paired(c) == { k \in DOMAIN c.env_ids : k <= Len(c.matrices) }

\* C21 as stated: after a refresh or a reset of slot i that returns, the
\* stored intrinsic matrix of slot i has the focal entries [0,0] = [1,1] =
\* width * focal length / horizontal aperture of the lens of the slot's
\* prim, the principal point (width/2, height/2), [2,2] = 1 and 0
\* elsewhere, also when set_intrinsic_matrices was called before with a
\* matrix that has f_x # f_y or an off-center principal point.
C21_Claim ==
    [][ (last'.op \in {"read", "reset", "reset_all"} /\ last'.err = "none") =>
            \A i \in last'.ids :
                LET f_px == FracDiv(FracMul(Frac(self_cfg.width, 1), world[i].focal_length),
                                    world[i].horiz_aperture)
                IN  data'.intrinsic_matrices[i] =
                        Matrix(f_px, f_px, Frac(self_cfg.width, 2), Frac(self_cfg.height, 2))
      ]_vars

\* C22 as stated: a set_intrinsic_matrices call that returns gives the
\* prim of the slot named by the k-th id the lens parameters resolved from
\* the k-th matrix and changes the lens of no other slot's prim; when the
\* k-th matrix has square pixels and a centered principal point, the next
\* refresh of that slot stores exactly that matrix.
C22_Claim ==
    [][ /\ (last'.op = "set_intrinsics" /\ last'.err = "none") =>
               \A e \in DOMAIN world :
                   LET ks == { k \in Paired(lens_arg') : lens_arg'.env_ids[k] = e }
                   IN  IF ks = {} THEN world'[e] = world[e]
                       ELSE \A k \in ks :
                               LensOf(world'[e]) =
                                   SetFromIntrinsics(lens_arg'.matrices[k],
                                                     lens_arg'.focal_length,
                                                     self_cfg.height, self_cfg.width)
        /\ (/\ last.op = "set_intrinsics" /\ last.err = "none"
            /\ last'.op = "read" /\ last'.err = "none") =>
               \A k \in Paired(lens_arg) :
                   (/\ lens_arg.env_ids[k] \in last'.ids
                    /\ SquareCentered(lens_arg.matrices[k])) =>
                       data'.intrinsic_matrices[lens_arg.env_ids[k]] = lens_arg.matrices[k]
      ]_vars

====
